---- MODULE Spec2Model ----
(***************************************************************************)
(* Chunked parallel delta-rule attention, forward engine                   *)
(* (fla/ops/delta_rule/parallel.py).                                       *)
(*                                                                         *)
(* Tensors are functions from index tuples <<i_bh, t, d>> to integers; a   *)
(* tensor made by torch.empty holds only the elements written so far.      *)
(* Arithmetic is exact (dtype casts are not modelled).  Scaled quantities  *)
(* (the scaled query and everything derived from it) are counted in        *)
(* halves, so that the scale 1/sqrt(K) is exact for K = 1 (two halves)     *)
(* and K = 4 (one half).                                                   *)
(* The tile sizes BT and BS keep the source's roles and BT % BS = 0 but    *)
(* are scaled down from 128 and 32; a query chunk still spans more than    *)
(* two key blocks, so the overlap phase has several iterations.            *)
(***************************************************************************)
EXTENDS Integers, Sequences, FiniteSets, TLC

VARIABLES
    pc,        \* position of the call: "call", "forward", "solved", "intra",
               \* "scan", "save", "returned", "raised", "backward"
    args,      \* the caller's arguments: tensors, shapes and options
    warned,    \* warnings.warn was issued
    log,       \* device work done so far: solver, allocations, kernel launches
    A,         \* correction matrix returned by fwd_prepare_T
    q_new,     \* corrected queries
    k_new,     \* corrected keys
    o,         \* intra-chunk output
    A_local,   \* intra-chunk scores (output_attentions only)
    o_new,     \* final output
    attn,      \* full attention matrix (output_attentions only)
    done,      \* units of the running kernel grid that have finished
    lastw,     \* for each element of attn, the stage that wrote it last
    result,    \* what the call gave back: "none", "ok" or the exception
    \* RotaryEmbedding (fla/modules/rotary.py)
    rpc,              \* position of RotaryEmbedding.forward: "idle", "cached",
                      \* "rotated", "raised"
    rcall,            \* the arguments of the forward in progress
    training,         \* nn.Module.training
    inv_freq_device,  \* device of the inv_freq buffer
    seq_len_cached,   \* self._seq_len_cached
    cos_cached,       \* self._cos_cached: None or [rows, device, dtype, inference]
    sin_cached,       \* self._sin_cached
    y_q,              \* rotated query: position <<n, t>> |-> table row used
    y_k,              \* rotated key
    rresult           \* "none", "ok" or the exception of the forward

delta_vars == <<pc, args, warned, log, A, q_new, k_new, o, A_local, o_new, attn,
                done, lastw, result>>

rotary_vars == <<rpc, rcall, training, inv_freq_device, seq_len_cached,
                 cos_cached, sin_cached, y_q, y_k, rresult>>

vars == <<pc, args, warned, log, A, q_new, k_new, o, A_local, o_new, attn,
          done, lastw, result, rpc, rcall, training, inv_freq_device,
          seq_len_cached, cos_cached, sin_cached, y_q, y_k, rresult>>

----------------------------------------------------------------------------
(* Bounds of the model and program constants *)

MaxT == 8          \* most positions (B * D1 * D2) of a call
MaxDev == 1        \* most positions holding the second token
BT == 6            \* query chunk (source: 128)
BS == 2            \* key block and intra-chunk size (source: 32)
MaxK == 128        \* widest supported feature axis

None == <<>>
Empty == [x \in {} |-> 0]

----------------------------------------------------------------------------
(* Arithmetic helpers *)

RECURSIVE SumTo(_, _)
SumTo(f, n) == IF n = 0 THEN 0 ELSE f[n - 1] + SumTo(f, n - 1)

\* a block held in registers: tabulated once, then indexed
Block(f) == f @@ Empty

cdiv(x, y) == (x + y - 1) \div y

RECURSIVE next_power_of_2(_)
next_power_of_2(n) == IF n <= 1 THEN 1 ELSE 2 * next_power_of_2((n + 1) \div 2)

\* range(start, stop, -step) of Python, as a sequence
RECURSIVE RangeDown(_, _, _)
RangeDown(start, stop, step) ==
    IF start <= stop THEN << >> ELSE <<start>> \o RangeDown(start - step, stop, step)

\* 1/sqrt(K) in halves
rsqrt(K) == IF K = 1 THEN 2 ELSE 1

\* a load without boundary check: a position outside the view reads the
\* element its index wraps to
Load_wrap(X, T, W, i_bh, t, d) == X[<<i_bh, t % T, d % W>>]

\* tl.load(p, boundary_check=...) of a block pointer over a (T, W) view:
\* positions outside the view read as zero
Load(X, T, W, i_bh, t, d) ==
    IF t >= 0 /\ t < T /\ d >= 0 /\ d < W THEN X[<<i_bh, t, d>>] ELSE 0

Load1(X, T, i_bh, t) ==
    IF t >= 0 /\ t < T THEN X[<<i_bh, t>>] ELSE 0

----------------------------------------------------------------------------
(* ChunkCorrectionSolver: fwd_prepare_T(k, beta, BS) of fla.ops.delta_rule *)
(* .wy_fast.  For every chunk of BS rows it returns the inverse of         *)
(* I + strictly-lower(diag(beta) K K^T), the matrix the reference oracle   *)
(* builds by forward substitution; rows at or beyond T are not stored.     *)

\* (diag(beta) K K^T)[r][c] of chunk i_t, rows and columns local to the chunk
GatedGram(k, beta, T, K, i_bh, i_t, r, c) ==
    Load1(beta, T, i_bh, i_t * BS + r)
    * SumTo([d \in 0..K-1 |-> Load(k, T, K, i_bh, i_t * BS + r, d)
                              * Load(k, T, K, i_bh, i_t * BS + c, d)], K)

\* entry (r, c) of (I + L)^-1 by forward substitution on (I + L) X = I
RECURSIVE UnitLowerInverse(_, _, _, _, _, _, _, _)
UnitLowerInverse(k, beta, T, K, i_bh, i_t, r, c) ==
    IF c > r THEN 0
    ELSE IF c = r THEN 1
    ELSE 0 - SumTo([m \in 0..r-1 |->
                      GatedGram(k, beta, T, K, i_bh, i_t, r, m)
                      * UnitLowerInverse(k, beta, T, K, i_bh, i_t, m, c)], r)

fwd_prepare_T(k, beta, BH, T, K) ==
    [x \in (0..BH-1) \X (0..T-1) \X (0..BS-1) |->
        UnitLowerInverse(k, beta, T, K, x[1], x[2] \div BS, x[2] % BS, x[3])]

----------------------------------------------------------------------------
(* IntraChunkTransformer: chunk_transform_qk_fwd_kernel, one unit          *)
(* (i_t, i_bh) of the grid.  BTt is the kernel's BT (the caller passes     *)
(* chunk_size = BS).                                                       *)

\* the mask of line 56 with the comparison turned round
m_t_qk_flipped(r, c) == r <= c

\* line 56: inclusive causal mask of the query-key scores
m_t_qk(r, c) == r >= c

\* line 58: strict causal mask of the key-key scores
m_t_kk(r, c) == r > c

chunk_transform_qk_fwd_kernel(q, k, v, beta, Ac, scale, T, K, V, BKk, BVv, BTt, OA, i_t, i_bh) ==
    LET R    == 0..BTt-1
        t0   == i_t * BTt
        b_q  == Block([x \in R \X (0..BKk-1) |-> Load(q, T, K, i_bh, t0 + x[1], x[2]) * scale])
        b_k  == Block([x \in R \X (0..BKk-1) |-> Load(k, T, K, i_bh, t0 + x[1], x[2])])
        b_v  == Block([x \in R \X (0..BVv-1) |-> Load(v, T, V, i_bh, t0 + x[1], x[2])])
        b_T  == Block([x \in R \X R |-> Load(Ac, T, BTt, i_bh, t0 + x[1], x[2])])
        b_qk == Block([x \in R \X R |->
                   IF m_t_qk(x[1], x[2])
                   THEN SumTo([d \in 0..BKk-1 |-> b_q[<<x[1], d>>] * b_k[<<x[2], d>>]], BKk)
                   ELSE 0])
        b_kk == Block([x \in R \X R |->
                   IF m_t_kk(x[1], x[2])
                   THEN SumTo([d \in 0..BKk-1 |-> b_k[<<x[1], d>>] * b_k[<<x[2], d>>]], BKk)
                   ELSE 0])
        b_beta   == Block([r \in R |-> Load1(beta, T, i_bh, t0 + r)])
        b_k_beta == Block([x \in R \X (0..BKk-1) |-> b_k[x] * b_beta[x[1]]])
        b_qkT == Block([x \in R \X R |->
                   SumTo([m \in R |-> b_qk[<<x[1], m>>] * b_T[<<m, x[2]>>]], BTt)])
        b_kkT == Block([x \in R \X R |->
                   SumTo([m \in R |-> b_kk[<<x[1], m>>] * b_T[<<m, x[2]>>]], BTt)])
        rows  == {r \in R : t0 + r < T}
    IN  [ A_local |->
            IF OA THEN [x \in {<<i_bh, t0 + r, c>> : r \in rows, c \in R} |->
                          b_qkT[<<x[2] - t0, x[3]>>]]
                  ELSE Empty,
          o |-> [x \in {<<i_bh, t0 + r, e>> : r \in rows, e \in 0..V-1} |->
                   SumTo([m \in R |-> b_qkT[<<x[2] - t0, m>>] * b_v[<<m, x[3]>>]], BTt)],
          q_new |-> [x \in {<<i_bh, t0 + r, d>> : r \in rows, d \in 0..K-1} |->
                   b_q[<<x[2] - t0, x[3]>>]
                   - SumTo([m \in R |-> b_qkT[<<x[2] - t0, m>>] * b_k_beta[<<m, x[3]>>]], BTt)],
          k_new |-> [x \in {<<i_bh, t0 + r, d>> : r \in rows, d \in 0..K-1} |->
                   b_k[<<x[2] - t0, x[3]>>]
                   - SumTo([m \in R |-> b_kkT[<<m, x[2] - t0>>] * b_k_beta[<<m, x[3]>>]], BTt)] ]

----------------------------------------------------------------------------
(* AttentionMaterializer: save_intra_chunk_attn, one unit (i_t, i_bh).     *)
(* The caller passes BT = BS.                                              *)

\* the copy with A's block pointer at column 0, like A_local's
save_intra_chunk_attn_col0(Al, T, BTt, i_t, i_bh) ==
    LET R == 0..BTt-1
        t0 == i_t * BTt
        inb == {j \in R : t0 + j < T}
    IN  [x \in {<<i_bh, t0 + r, c>> : r \in inb, c \in R \cap (0..T-1)} |->
            Load(Al, T, BTt, i_bh, x[2], x[3])]

\* the copy with both block pointers at the origin, whatever the unit is
save_intra_chunk_attn_origin(Al, T, BTt, i_t, i_bh) ==
    LET inb == {j \in 0..BTt-1 : j < T}
    IN  [x \in {<<i_bh, r, c>> : r \in inb, c \in inb} |->
            Load(Al, T, BTt, i_bh, x[2], x[3])]

save_intra_chunk_attn(Al, T, BTt, i_t, i_bh) ==
    LET R == 0..BTt-1
        t0 == i_t * BTt
        inb == {j \in R : t0 + j < T}
    IN  [x \in {<<i_bh, t0 + r, t0 + c>> : r \in inb, c \in inb} |->
            Load(Al, T, BTt, i_bh, x[2], x[3] - t0)]

----------------------------------------------------------------------------
(* InterChunkScanner: parallel_delta_rule_fwd_kernel, one unit (i_t, i_bh).*)
(* kn carries the kernel's arguments: q, k (corrected keys), k2 (original  *)
(* keys), v, beta, o, T, K, V, BK, BV, OA.  The registers are              *)
(* st = [b_q, b_o, attn], attn being the stores made so far.               *)

\* the mask of line 193 without the + BS: a row sees its own key block
m_s_no_block(r, offset, i_t) == r >= (offset - i_t * BT)

\* line 193: rows of the query chunk that may see the key block at offset
m_s(r, offset, i_t) == r >= (offset - i_t * BT + BS)

\* lines 181 and 207: the key block offsets of the two phases
OverlapOffsets(i_t) == RangeDown((i_t + 1) * BT - 2 * BS, i_t * BT - BS, BS)

\* the disjoint phase starting one key block further left
DisjointOffsets_skip(i_t) == RangeDown(i_t * BT - 2 * BS, 0 - BS, BS)

DisjointOffsets(i_t) == RangeDown(i_t * BT - BS, 0 - BS, BS)

\* one iteration of either loop (lines 182-203, 208-228); masked selects
\* the overlap phase's tl.where
ScanIter(kn, st, offset, masked, i_t, i_bh) ==
    LET R    == 0..BT-1
        C    == 0..BS-1
        b_k  == Block([x \in (0..kn.BK-1) \X C |-> Load(kn.k, kn.T, kn.K, i_bh, offset + x[2], x[1])])
        b_v  == Block([x \in C \X (0..kn.BV-1) |-> Load(kn.v, kn.T, kn.V, i_bh, offset + x[1], x[2])])
        b_beta == Block([c \in C |-> Load1(kn.beta, kn.T, i_bh, offset + c)])
        b_s  == Block([x \in R \X C |->
                   IF masked /\ ~m_s(x[1], offset, i_t) THEN 0
                   ELSE SumTo([d \in 0..kn.BK-1 |-> st.b_q[<<x[1], d>>] * b_k[<<d, x[2]>>]], kn.BK)])
        b_k2 == Block([x \in C \X (0..kn.BK-1) |->
                   Load(kn.k2, kn.T, kn.K, i_bh, offset + x[1], x[2]) * b_beta[x[1]]])
        inr  == {r \in R : i_t * BT + r < kn.T}
        inc  == {c \in C : offset + c < kn.T}
        b_q2 == Block([x \in R \X (0..kn.BK-1) |->
                   st.b_q[x] - SumTo([c \in C |-> b_s[<<x[1], c>>] * b_k2[<<c, x[2]>>]], BS)])
        b_o2 == Block([x \in R \X (0..kn.BV-1) |->
                   st.b_o[x] + SumTo([c \in C |-> b_s[<<x[1], c>>] * b_v[<<c, x[2]>>]], BS)])
        wr   == [x \in {<<i_bh, i_t * BT + r, offset + c>> : r \in inr, c \in inc} |->
                   b_s[<<x[2] - i_t * BT, x[3] - offset>>]]
    IN  [ b_q |-> b_q2, b_o |-> b_o2,
          attn |-> IF kn.OA THEN wr @@ st.attn ELSE st.attn ]

RECURSIVE ScanLoop(_, _, _, _, _, _, _)
ScanLoop(kn, st, offs, n, masked, i_t, i_bh) ==
    IF n > Len(offs) THEN st
    ELSE ScanLoop(kn, ScanIter(kn, st, offs[n], masked, i_t, i_bh), offs, n + 1,
                  masked, i_t, i_bh)

parallel_delta_rule_fwd_kernel(kn, i_t, i_bh) ==
    LET R   == 0..BT-1
        st0 == [ b_q  |-> [x \in R \X (0..kn.BK-1) |->
                             Load(kn.q, kn.T, kn.K, i_bh, i_t * BT + x[1], x[2])],
                 b_o  |-> [x \in R \X (0..kn.BV-1) |->
                             Load(kn.o, kn.T, kn.V, i_bh, i_t * BT + x[1], x[2])],
                 attn |-> Empty ]
        st1 == ScanLoop(kn, st0, OverlapOffsets(i_t), 1, TRUE, i_t, i_bh)
        st2 == ScanLoop(kn, st1, DisjointOffsets(i_t), 1, FALSE, i_t, i_bh)
    IN  [ o_new |-> [x \in {<<i_bh, i_t * BT + r, e>> :
                              r \in {j \in R : i_t * BT + j < kn.T}, e \in 0..kn.V-1} |->
                       st2.b_o[<<x[2] - i_t * BT, x[3]>>]],
          attn  |-> st2.attn ]

----------------------------------------------------------------------------
(* The caller's arguments.  A tensor of shape <<B, D1, D2, W>> is          *)
(* contiguous, so the kernels' i_bh * T * W + t * W + d addresses element  *)
(* [b, a1, a2, d] with i_bh = b * D1 + a1 and t = a2.                      *)
(* Every position holds one of the tokens below; component d of a token's  *)
(* vector repeats its four-entry pattern.                                  *)

Toks == {1, 2}
QPat == << <<1, 0, 1, 1>>, <<2, 1, 0, 1>> >>
KPat == << <<1, 1, 0, 1>>, <<2, 0, 1, -1>> >>
VPat == << <<1, 2, 1, 0>>, <<3, -1, 0, 1>> >>
BetaPat == <<1, 2>>

\* <<K, V>>: the feature widths of well-shaped calls
Features == {<<1, 1>>, <<4, 3>>}
\* <<B, D1>>: the leading extents
Leading == {<<1, 1>>, <<1, 2>>, <<2, 1>>}
Scales == {None, <<1>>, <<2>>}

Tensor(pat, toks, BH, T, W) ==
    [x \in (0..BH-1) \X (0..T-1) \X (0..W-1) |-> pat[toks[<<x[1], x[2]>>]][(x[3] % 4) + 1]]

MkArgs(B, D1, D2, Wq, Wk, V, toks, scale, oa, hf) ==
    [ q |-> Tensor(QPat, toks, B * D1, D2, Wq),
      k |-> Tensor(KPat, toks, B * D1, D2, Wk),
      v |-> Tensor(VPat, toks, B * D1, D2, V),
      beta |-> [x \in (0..B*D1-1) \X (0..D2-1) |-> BetaPat[toks[x]]],
      qs |-> <<B, D1, D2, Wq>>, ks |-> <<B, D1, D2, Wk>>, vs |-> <<B, D1, D2, V>>,
      bs |-> <<B, D1, D2>>,
      scale |-> scale, output_attentions |-> oa, head_first |-> hf ]

Dims == {x \in Leading \X (1..MaxT) : x[1][1] * x[1][2] * x[2] <= MaxT}

TokenMaps(BH, T) ==
    {f \in [(0..BH-1) \X (0..T-1) -> Toks] :
        Cardinality({x \in DOMAIN f : f[x] = 2}) <= MaxDev}

\* calls whose tensors agree in shape
WellShaped ==
    UNION { { MkArgs(x[1][1], x[1][2], x[2], kv[1], kv[1], kv[2], toks, sc, oa, hf) :
                toks \in TokenMaps(x[1][1] * x[1][2], x[2]) } :
            x \in Dims, kv \in Features, sc \in Scales,
            oa \in BOOLEAN, hf \in BOOLEAN }

\* calls around the width limit: one position, widths MaxK and MaxK + 1
Wide ==
    { MkArgs(1, 1, 1, Wq, Wk, 1, [x \in {<<0, 0>>} |-> tok], sc, oa, hf) :
        Wq \in {MaxK, MaxK + 1}, Wk \in {MaxK + 1}, tok \in {1},
        sc \in {None, <<1>>}, oa \in {FALSE}, hf \in BOOLEAN }

\* calls with K <= MaxK whose tensors disagree in shape: the gate, the value
\* or the query has one more time step or one more head than the key
Misshaped ==
    UNION { LET a == MkArgs(1, 1, T, 1, 1, 1, [x \in {0} \X (0..T-1) |-> 1], <<1>>,
                            FALSE, FALSE)
                b == MkArgs(1, 1, T + 1, 1, 1, 1, [x \in {0} \X (0..T) |-> 1], <<1>>,
                            FALSE, FALSE)
                c == MkArgs(1, 2, T, 1, 1, 1, [x \in {0, 1} \X (0..T-1) |-> 1], <<1>>,
                            FALSE, FALSE)
            IN  { [a EXCEPT !.beta = b.beta, !.bs = b.bs],
                  [a EXCEPT !.v = b.v, !.vs = b.vs],
                  [a EXCEPT !.q = c.q, !.qs = c.qs] } :
            T \in {1, BS + 1} }

Calls == WellShaped \cup Wide \cup Misshaped

----------------------------------------------------------------------------
(* Tensors and kernel pointer parameters.  A tensor is named after the     *)
(* Python variable that holds it; a launch binds each pointer parameter of *)
(* the kernel to a tensor, and the kernel loads and stores through the     *)
(* parameter.                                                              *)

\* the caller's tensors
Inputs == {"q", "k", "v", "beta"}

\* lines 95-100, 248, 263: tensors made by empty_like, new_zeros
Created == {"q_new", "k_new", "o", "A_local", "attn", "o_new"}

\* an in-place launch: the corrected queries are stored over the queries
IntraBind_inplace ==
    [ q |-> "q", k |-> "k", v |-> "v", beta |-> "beta", o |-> "o", A |-> "A",
      q_new |-> "q", k_new |-> "k_new", A_local |-> "A_local" ]

\* lines 101-110: chunk_transform_qk_fwd_kernel[grid](q, k, v, beta, o, A,
\* q_new, k_new, A_local, ...) against the signature of lines 22-31
IntraBind ==
    [ q |-> "q", k |-> "k", v |-> "v", beta |-> "beta", o |-> "o", A |-> "A",
      q_new |-> "q_new", k_new |-> "k_new", A_local |-> "A_local" ]

\* lines 48-53, 62: parameters the intra-chunk kernel loads through
IntraLoads == {"q", "k", "v", "A", "beta"}

\* lines 69, 73, 76, 80: parameters it stores through
IntraStores == {"A_local", "o", "q_new", "k_new"}

\* lines 265-273: the scanner's launch
ScanBind ==
    [ q |-> "q_new", k |-> "k_new", k2 |-> "k", v |-> "v", beta |-> "beta",
      o |-> "o", o_new |-> "o_new", attn |-> "attn" ]

\* lines 172, 176, 187-198, 214-223
ScanLoads == {"q", "o", "k", "v", "beta", "k2"}

\* lines 203, 228, 231
ScanStores == {"attn", "o_new"}

\* lines 287-289: the materializer's launch
SaveBind == [ A |-> "attn", A_local |-> "A_local" ]

\* line 140
SaveLoads == {"A_local"}

\* line 141
SaveStores == {"A"}

\* tensor name holding x, after a kernel stored the blocks w (one per store
\* parameter) through the binding bind
Stored(x, name, bind, w) ==
    LET ps == {p \in DOMAIN w : bind[p] = name}
    IN  IF ps = {} THEN x ELSE w[CHOOSE p \in ps : TRUE] @@ x

\* the caller's tensors after such a store
StoredArgs(a, bind, w) ==
    [a EXCEPT !.q = Stored(@, "q", bind, w), !.k = Stored(@, "k", bind, w),
              !.v = Stored(@, "v", bind, w), !.beta = Stored(@, "beta", bind, w)]

----------------------------------------------------------------------------
(* The call: parallel_delta_rule -> ParallelDeltaRuleFunction.forward      *)

Init ==
    /\ pc = "call"
    /\ args \in Calls
    /\ warned = FALSE
    /\ log = {}
    /\ A = Empty /\ q_new = Empty /\ k_new = Empty /\ o = Empty
    /\ A_local = Empty /\ o_new = Empty /\ attn = Empty /\ lastw = Empty
    /\ done = {}
    /\ result = "none"
    /\ rpc = "idle" /\ rcall = None /\ training = TRUE /\ inv_freq_device = "cuda:0"
    /\ seq_len_cached = 0 /\ cos_cached = None /\ sin_cached = None
    /\ y_q = Empty /\ y_k = Empty /\ rresult = "none"

\* line 240: B, H, T, K, V = *k.shape, v.shape[-1]
fB == args.ks[1]
fH == args.ks[2]
fT == args.ks[3]
fK == args.ks[4]
fV == args.vs[4]
BK == next_power_of_2(fK)
BV == next_power_of_2(fV)

\* the kernels address q, v and beta with the extents of k: they stay inside
\* the tensors only when the shapes agree
ShapesAgree ==
    /\ args.qs = args.ks
    /\ SubSeq(args.vs, 1, 3) = SubSeq(args.ks, 1, 3)
    /\ args.bs = SubSeq(args.ks, 1, 3)

frame_tensors == UNCHANGED <<A, q_new, k_new, o, A_local, o_new, attn, lastw>>

\* the tensor a name stands for
Buf(name) ==
    CASE name = "q" -> args.q
      [] name = "k" -> args.k
      [] name = "v" -> args.v
      [] name = "beta" -> args.beta
      [] name = "A" -> A
      [] name = "q_new" -> q_new
      [] name = "k_new" -> k_new
      [] name = "o" -> o
      [] name = "A_local" -> A_local
      [] name = "o_new" -> o_new
      [] name = "attn" -> attn

\* lines 336-340: the deprecated layout flag
RaiseDeprecated ==
    /\ UNCHANGED rotary_vars
    /\ pc = "call"
    /\ args.head_first
    /\ pc' = "raised"
    /\ result' = "DeprecationWarning"
    /\ UNCHANGED <<args, warned, log, done>>
    /\ frame_tensors

\* the call going on to the forward without the check of line 336
Apply_unchecked ==
    /\ UNCHANGED rotary_vars
    /\ pc = "call"
    /\ warned' = (args.qs[2] < args.qs[3])
    /\ pc' = "forward"
    /\ UNCHANGED <<args, log, done, result>>
    /\ frame_tensors

\* lines 341-348: the layout warning, then ParallelDeltaRuleFunction.apply
Apply ==
    /\ UNCHANGED rotary_vars
    /\ pc = "call"
    /\ ~args.head_first
    /\ warned' = (args.qs[2] < args.qs[3])
    /\ pc' = "forward"
    /\ UNCHANGED <<args, log, done, result>>
    /\ frame_tensors

\* line 241: the width check
WidthOk == args.qs[4] <= MaxK

\* lines 241, 245: a failed assert ends the call
ForwardAssert ==
    /\ UNCHANGED rotary_vars
    /\ pc = "forward"
    /\ ~(WidthOk /\ BT % BS = 0)
    /\ pc' = "raised"
    /\ result' = "AssertionError"
    /\ UNCHANGED <<args, warned, log, done>>
    /\ frame_tensors

\* lines 247-248: the solver, then the attention buffer
ForwardPrepare ==
    /\ UNCHANGED rotary_vars
    /\ pc = "forward"
    /\ WidthOk /\ BT % BS = 0
    /\ A' = fwd_prepare_T(args.k, args.beta, fB * fH, fT, fK)
    /\ attn' = IF args.output_attentions
               THEN [x \in (0..fB*fH-1) \X (0..fT-1) \X (0..fT-1) |-> 0]
               ELSE Empty
    /\ lastw' = IF args.output_attentions
                THEN [x \in (0..fB*fH-1) \X (0..fT-1) \X (0..fT-1) |-> "zeros"]
                ELSE Empty
    /\ log' = log \cup {"fwd_prepare_T"} \cup
              (IF args.output_attentions THEN {"new_zeros"} ELSE {})
    /\ pc' = "solved"
    /\ UNCHANGED <<args, warned, q_new, k_new, o, A_local, o_new, done, result>>

\* lines 95-101: chunk_transform_qk_fwd allocates and launches
\* cdiv(T, BS) x B*H units
IntraGrid == (0..cdiv(fT, BS)-1) \X (0..fB*fH-1)

\* line 48: the kernel multiplies by scale; a scale of None does not compile
LaunchIntraNone ==
    /\ UNCHANGED rotary_vars
    /\ pc = "solved"
    /\ args.scale = None
    /\ log' = log \cup {"empty_like"}
    /\ pc' = "raised"
    /\ result' = "CompilationError"
    /\ UNCHANGED <<args, warned, done>>
    /\ frame_tensors

LaunchIntra ==
    /\ UNCHANGED rotary_vars
    /\ pc = "solved"
    /\ args.scale # None
    /\ ShapesAgree
    /\ log' = log \cup {"empty_like", "chunk_transform_qk_fwd_kernel"}
    /\ done' = {}
    /\ pc' = "intra"
    /\ UNCHANGED <<args, warned, result>>
    /\ frame_tensors

\* shapes that disagree: the kernels read and write outside the tensors;
\* the launch faults or leaves arbitrary values in the output
LaunchUndefined ==
    /\ UNCHANGED rotary_vars
    /\ pc = "solved"
    /\ args.scale # None
    /\ ~ShapesAgree
    /\ log' = log \cup {"empty_like", "chunk_transform_qk_fwd_kernel"}
    /\ \/ /\ pc' = "raised"
          /\ result' = "DeviceError"
          /\ o_new' = o_new
       \/ /\ pc' = "returned"
          /\ result' = "ok"
          /\ \E g \in {0, 1} :
               o_new' = [x \in (0..args.vs[1]*args.vs[2]-1) \X (0..args.vs[3]-1)
                                \X (0..args.vs[4]-1) |-> g]
    /\ UNCHANGED <<args, warned, done, A, q_new, k_new, o, A_local, attn, lastw>>

IntraUnit(i_t, i_bh) ==
    /\ UNCHANGED rotary_vars
    /\ pc = "intra"
    /\ <<i_t, i_bh>> \in IntraGrid \ done
    /\ LET w == chunk_transform_qk_fwd_kernel(Buf(IntraBind.q), Buf(IntraBind.k),
                    Buf(IntraBind.v), Buf(IntraBind.beta), Buf(IntraBind.A),
                    args.scale[1], fT, fK, fV, BK, BV, BS,
                    args.output_attentions, i_t, i_bh)
       IN  /\ q_new' = Stored(q_new, "q_new", IntraBind, w)
           /\ k_new' = Stored(k_new, "k_new", IntraBind, w)
           /\ o' = Stored(o, "o", IntraBind, w)
           /\ A_local' = Stored(A_local, "A_local", IntraBind, w)
           /\ A' = Stored(A, "A", IntraBind, w)
           /\ args' = StoredArgs(args, IntraBind, w)
    /\ done' = done \cup {<<i_t, i_bh>>}
    /\ UNCHANGED <<pc, warned, log, o_new, attn, lastw, result>>

\* lines 262-283: the scanner grid, cdiv(T, BT) x B*H units, launched on the
\* same stream once the intra-chunk grid has finished
ScanGrid == (0..cdiv(fT, BT)-1) \X (0..fB*fH-1)

\* the scanner launched without waiting for the intra-chunk grid
LaunchScan_early ==
    /\ UNCHANGED rotary_vars
    /\ pc = "intra"
    /\ log' = log \cup {"parallel_delta_rule_fwd_kernel"}
    /\ done' = {}
    /\ pc' = "scan"
    /\ UNCHANGED <<args, warned, result>>
    /\ frame_tensors

LaunchScan ==
    /\ UNCHANGED rotary_vars
    /\ pc = "intra"
    /\ done = IntraGrid
    /\ log' = log \cup {"parallel_delta_rule_fwd_kernel"}
    /\ done' = {}
    /\ pc' = "scan"
    /\ UNCHANGED <<args, warned, result>>
    /\ frame_tensors

ScanArgs ==
    [ q |-> Buf(ScanBind.q), k |-> Buf(ScanBind.k), k2 |-> Buf(ScanBind.k2),
      v |-> Buf(ScanBind.v), beta |-> Buf(ScanBind.beta),
      o |-> Buf(ScanBind.o), T |-> fT, K |-> fK, V |-> fV, BK |-> BK, BV |-> BV,
      OA |-> args.output_attentions ]

ScanUnit(i_t, i_bh) ==
    /\ UNCHANGED rotary_vars
    /\ pc = "scan"
    /\ <<i_t, i_bh>> \in ScanGrid \ done
    /\ LET w == parallel_delta_rule_fwd_kernel(ScanArgs, i_t, i_bh)
       IN  /\ o_new' = Stored(o_new, "o_new", ScanBind, w)
           /\ attn' = Stored(attn, "attn", ScanBind, w)
           /\ lastw' = [x \in DOMAIN w.attn |-> "scan"] @@ lastw
           /\ q_new' = Stored(q_new, "q_new", ScanBind, w)
           /\ k_new' = Stored(k_new, "k_new", ScanBind, w)
           /\ o' = Stored(o, "o", ScanBind, w)
           /\ A' = Stored(A, "A", ScanBind, w)
           /\ args' = StoredArgs(args, ScanBind, w)
    /\ done' = done \cup {<<i_t, i_bh>>}
    /\ UNCHANGED <<pc, warned, log, A_local, result>>

\* lines 285-292: the materializer grid, cdiv(T, BS) x B*H units
SaveGrid == (0..cdiv(fT, BS)-1) \X (0..fB*fH-1)

LaunchSave ==
    /\ UNCHANGED rotary_vars
    /\ pc = "scan"
    /\ done = ScanGrid
    /\ args.output_attentions
    /\ log' = log \cup {"save_intra_chunk_attn"}
    /\ done' = {}
    /\ pc' = "save"
    /\ UNCHANGED <<args, warned, result>>
    /\ frame_tensors

SaveUnit(i_t, i_bh) ==
    /\ UNCHANGED rotary_vars
    /\ pc = "save"
    /\ <<i_t, i_bh>> \in SaveGrid \ done
    /\ LET w == [A |-> save_intra_chunk_attn(Buf(SaveBind.A_local), fT, BS, i_t, i_bh)]
       IN  /\ attn' = Stored(attn, "attn", SaveBind, w)
           /\ lastw' = [x \in DOMAIN w.A |-> "save"] @@ lastw
           /\ A_local' = Stored(A_local, "A_local", SaveBind, w)
           /\ A' = Stored(A, "A", SaveBind, w)
           /\ args' = StoredArgs(args, SaveBind, w)
    /\ done' = done \cup {<<i_t, i_bh>>}
    /\ UNCHANGED <<pc, warned, log, q_new, k_new, o, o_new, result>>

\* line 293: return o_new, attn
Return ==
    /\ UNCHANGED rotary_vars
    /\ \/ pc = "scan" /\ done = ScanGrid /\ ~args.output_attentions
       \/ pc = "save" /\ done = SaveGrid
    /\ pc' = "returned"
    /\ result' = "ok"
    /\ UNCHANGED <<args, warned, log, done>>
    /\ frame_tensors

\* incoming gradients
Grads == {0, 1}

\* a backward that returns without raising
Backward_silent ==
    /\ UNCHANGED rotary_vars
    /\ pc = "returned"
    /\ pc' = "backward"
    /\ result' = "ok"
    /\ UNCHANGED <<args, warned, log, done>>
    /\ frame_tensors

\* lines 295-299: autograd calls backward on the result of a forward, with
\* any incoming gradient do
Backward ==
    /\ UNCHANGED rotary_vars
    /\ pc = "returned"
    /\ \E do \in Grads : TRUE
    /\ pc' = "backward"
    /\ result' = "NotImplementedError"
    /\ UNCHANGED <<args, warned, log, done>>
    /\ frame_tensors

Next ==
    \/ RaiseDeprecated
    \/ Apply
    \/ ForwardAssert
    \/ ForwardPrepare
    \/ LaunchIntraNone
    \/ LaunchIntra
    \/ LaunchUndefined
    \/ \E u \in IntraGrid : IntraUnit(u[1], u[2])
    \/ LaunchScan
    \/ \E u \in ScanGrid : ScanUnit(u[1], u[2])
    \/ LaunchSave
    \/ \E u \in SaveGrid : SaveUnit(u[1], u[2])
    \/ Return
    \/ Backward

Spec == Init /\ [][Next]_vars

----------------------------------------------------------------------------
(* ReferenceOracle: naive_delta_rule_parallel(q, k, v, beta, BM, BN) for   *)
(* one i_bh.  a is the caller's arguments, l the time extent, d_k the      *)
(* feature width of q.                                                     *)

\* lines 358, 386-387: rearrange needs l % BN = 0, and masked_fill_ needs a
\* query block of exactly BM rows
OracleRuns(l, BM, BN) == l % BN = 0 /\ l % BM = 0

\* lines 359-363: T, rows and columns local to chunk n
RECURSIVE RefT(_, _, _, _, _, _, _)
RefT(a, BN, d_k, i_bh, n, i, j) ==
    LET T0(r, c) == IF c >= r THEN 0
                    ELSE 0 - a.beta[<<i_bh, n * BN + r>>]
                             * SumTo([d \in 0..d_k-1 |-> a.k[<<i_bh, n * BN + r, d>>]
                                                       * a.k[<<i_bh, n * BN + c, d>>]], d_k)
    IN  IF j > i THEN 0
        ELSE IF j = i THEN 1
        ELSE T0(i, j) + SumTo([m \in 0..i-1 |->
                                 T0(i, m) * (IF j < m THEN RefT(a, BN, d_k, i_bh, n, m, j)
                                             ELSE 0)], i)

\* lines 354-377: the chunk-local stage, flattened back to (l, d)
RefLocal(a, l, d_k, d_v, BN, i_bh) ==
    LET Tm == 0..l-1
        C  == 0..BN-1
        q1 == Block([x \in Tm \X (0..d_k-1) |-> a.q[<<i_bh, x[1], x[2]>>] * rsqrt(d_k)])
        v1 == Block([x \in Tm \X (0..d_v-1) |-> a.v[<<i_bh, x[1], x[2]>>] * a.beta[<<i_bh, x[1]>>]])
        kb == Block([x \in Tm \X (0..d_k-1) |-> a.k[<<i_bh, x[1], x[2]>>] * a.beta[<<i_bh, x[1]>>]])
        Tn == Block([x \in Tm \X C |-> RefT(a, BN, d_k, i_bh, x[1] \div BN, x[1] % BN, x[2])])
        qk == Block([x \in Tm \X C |->
                 IF x[2] > x[1] % BN THEN 0
                 ELSE SumTo([d \in 0..d_k-1 |->
                        q1[<<x[1], d>>] * a.k[<<i_bh, (x[1] \div BN) * BN + x[2], d>>]], d_k)])
        kk == Block([x \in Tm \X C |->
                 IF x[2] >= x[1] % BN THEN 0
                 ELSE SumTo([d \in 0..d_k-1 |->
                        a.k[<<i_bh, x[1], d>>] * a.k[<<i_bh, (x[1] \div BN) * BN + x[2], d>>]], d_k)])
        Al == Block([x \in Tm \X C |->
                 SumTo([m \in C |-> qk[<<x[1], m>>] * Tn[<<(x[1] \div BN) * BN + m, x[2]>>]], BN)])
        kT == Block([x \in Tm \X C |->
                 SumTo([m \in C |-> kk[<<x[1], m>>] * Tn[<<(x[1] \div BN) * BN + m, x[2]>>]], BN)])
    IN  [ A_local |-> Al,
          v |-> v1,
          k_beta |-> kb,
          o_intra |-> Block([x \in Tm \X (0..d_v-1) |->
                 SumTo([m \in C |-> Al[<<x[1], m>>] * v1[<<(x[1] \div BN) * BN + m, x[2]>>]], BN)]),
          k |-> Block([x \in Tm \X (0..d_k-1) |->
                 a.k[<<i_bh, x[1], x[2]>>]
                 - SumTo([m \in C |-> kT[<<(x[1] \div BN) * BN + m, x[1] % BN>>]
                                      * kb[<<(x[1] \div BN) * BN + m, x[2]>>]], BN)]),
          q |-> Block([x \in Tm \X (0..d_k-1) |->
                 q1[x] - SumTo([m \in C |-> Al[<<x[1], m>>]
                                            * kb[<<(x[1] \div BN) * BN + m, x[2]>>]], BN)]) ]

\* lines 383-397: the loops over key blocks j of query block i; st = [q_i, o_i]
RECURSIVE RefLoop(_, _, _, _, _, _, _, _, _, _)
RefLoop(loc, st, d_k, d_v, BM, BN, i, js, n, masked) ==
    IF n > Len(js) THEN st
    ELSE LET j    == js[n]
             R    == 0..BM-1
             C    == 0..BN-1
             A_ij == Block([x \in R \X C |->
                       IF masked /\ ~(i + x[1] >= j + BN) THEN 0
                       ELSE SumTo([d \in 0..d_k-1 |->
                              st.q_i[<<x[1], d>>] * loc.k[<<j + x[2], d>>]], d_k)])
             nx   == [ q_i |-> Block([x \in R \X (0..d_k-1) |->
                                 st.q_i[x] - SumTo([c \in C |->
                                   A_ij[<<x[1], c>>] * loc.k_beta[<<j + c, x[2]>>]], BN)]),
                       o_i |-> Block([x \in R \X (0..d_v-1) |->
                                 st.o_i[x] + SumTo([c \in C |->
                                   A_ij[<<x[1], c>>] * loc.v[<<j + c, x[2]>>]], BN)]) ]
         IN  RefLoop(loc, nx, d_k, d_v, BM, BN, i, js, n + 1, masked)

\* o[i_bh, t, e] of the oracle, for l that OracleRuns accepts
naive_delta_rule_parallel(a, l, d_k, d_v, BM, BN, i_bh) ==
    LET loc == RefLocal(a, l, d_k, d_v, BN, i_bh)
        blk(i) ==
            LET st0 == [ q_i |-> [x \in (0..BM-1) \X (0..d_k-1) |-> loc.q[<<i + x[1], x[2]>>]],
                         o_i |-> [x \in (0..BM-1) \X (0..d_v-1) |-> loc.o_intra[<<i + x[1], x[2]>>]] ]
                st1 == RefLoop(loc, st0, d_k, d_v, BM, BN, i,
                               RangeDown(i + BM - 2 * BN, i - BN, BN), 1, TRUE)
            IN  RefLoop(loc, st1, d_k, d_v, BM, BN, i,
                        RangeDown(i - BN, 0 - BN, BN), 1, FALSE).o_i
    IN  [x \in (0..l-1) \X (0..d_v-1) |-> blk((x[1] \div BM) * BM)[<<x[1] % BM, x[2]>>]]

----------------------------------------------------------------------------
(* The sequential delta rule, from an all-zero state S (K x V):            *)
(*   S_t = S_{t-1} - beta_t k_t (k_t^T S_{t-1}) + beta_t k_t v_t^T         *)
(*   o_t = (scale q_t)^T S_t                                               *)

RECURSIVE DeltaState(_, _, _, _, _)
DeltaState(a, K, V, i_bh, t) ==
    IF t < 0 THEN [x \in (0..K-1) \X (0..V-1) |-> 0]
    ELSE LET S  == DeltaState(a, K, V, i_bh, t - 1)
             kS == [e \in 0..V-1 |->
                      SumTo([d \in 0..K-1 |-> a.k[<<i_bh, t, d>>] * S[<<d, e>>]], K)]
         IN  Block([x \in (0..K-1) \X (0..V-1) |->
                 S[x] - a.beta[<<i_bh, t>>] * a.k[<<i_bh, t, x[1]>>] * kS[x[2]]
                      + a.beta[<<i_bh, t>>] * a.k[<<i_bh, t, x[1]>>] * a.v[<<i_bh, t, x[2]>>]])

DeltaOut(a, scale, K, V, i_bh, t, e) ==
    SumTo([d \in 0..K-1 |-> scale * a.q[<<i_bh, t, d>>] * DeltaState(a, K, V, i_bh, t)[<<d, e>>]], K)

----------------------------------------------------------------------------
(* The forward as a function of the arguments: the same kernels, every     *)
(* unit of a grid run in grid order (lines 247-293).  Used to compare the  *)
(* run in the state with the run on other arguments.                       *)

RECURSIVE IntraUnits(_, _, _, _)
IntraUnits(a, Ac, sc, n) ==
    IF n = 0 THEN [q_new |-> Empty, k_new |-> Empty, o |-> Empty]
    ELSE LET NT   == cdiv(a.ks[3], BS)
             w    == chunk_transform_qk_fwd_kernel(a.q, a.k, a.v, a.beta, Ac, sc,
                        a.ks[3], a.ks[4], a.vs[4], next_power_of_2(a.ks[4]),
                        next_power_of_2(a.vs[4]), BS, FALSE, (n - 1) % NT, (n - 1) \div NT)
             rest == IntraUnits(a, Ac, sc, n - 1)
         IN  [q_new |-> w.q_new @@ rest.q_new, k_new |-> w.k_new @@ rest.k_new,
              o |-> w.o @@ rest.o]

RECURSIVE ScanUnits(_, _, _)
ScanUnits(a, kn, n) ==
    IF n = 0 THEN Empty
    ELSE LET NT == cdiv(a.ks[3], BT)
         IN  parallel_delta_rule_fwd_kernel(kn, (n - 1) % NT, (n - 1) \div NT).o_new
             @@ ScanUnits(a, kn, n - 1)

forward_o(a, sc) ==
    LET BH == a.ks[1] * a.ks[2]
        Ac == fwd_prepare_T(a.k, a.beta, BH, a.ks[3], a.ks[4])
        w  == IntraUnits(a, Ac, sc, cdiv(a.ks[3], BS) * BH)
        kn == [ q |-> w.q_new, k |-> w.k_new, k2 |-> a.k, v |-> a.v, beta |-> a.beta,
                o |-> w.o, T |-> a.ks[3], K |-> a.ks[4], V |-> a.vs[4],
                BK |-> next_power_of_2(a.ks[4]), BV |-> next_power_of_2(a.vs[4]),
                OA |-> FALSE ]
    IN  ScanUnits(a, kn, cdiv(a.ks[3], BT) * BH)

\* the arguments with key, value or gate (fld) raised by one wherever sel holds
Perturb(a, fld, sel(_)) ==
    [a EXCEPT !.k = [x \in DOMAIN a.k |->
                       IF fld = "k" /\ sel(x) THEN a.k[x] + 1 ELSE a.k[x]],
              !.v = [x \in DOMAIN a.v |->
                       IF fld = "v" /\ sel(x) THEN a.v[x] + 1 ELSE a.v[x]],
              !.beta = [x \in DOMAIN a.beta |->
                       IF fld = "beta" /\ sel(x) THEN a.beta[x] + 1 ELSE a.beta[x]]]

Fields == {"k", "v", "beta"}

\* the forward returned, on arguments whose shapes agree
Completed == pc = "returned" /\ ShapesAgree

----------------------------------------------------------------------------
(* Claims *)

\* C1: for valid inputs on which the oracle returns (T a multiple of BM),
\* with scale 1/sqrt(K), the forward's output equals the output of
\* naive_delta_rule_parallel, whatever the gates are.
C1_EngineMatchesOracle ==
    (Completed /\ args.scale = <<rsqrt(fK)>> /\ OracleRuns(fT, BT, BS)) =>
        \A x \in DOMAIN o_new :
            o_new[x] = naive_delta_rule_parallel(args, fT, fK, fV, BT, BS, x[1])[<<x[2], x[3]>>]

\* C2: for valid inputs the forward's output at every time equals the output
\* of the sequential delta rule run from the zero state, the gate multiplying
\* both the correction and the value contribution of each step.
C2_EngineMatchesRecurrence ==
    Completed =>
        \A x \in DOMAIN o_new :
            o_new[x] = DeltaOut(args, args.scale[1], fK, fV, x[1], x[2], x[3])

\* C3: causality.  Changing key, value or gate at a time s leaves the output
\* at every time before s as it is, for every s, inside a chunk and across
\* chunk boundaries.
C3_Causality ==
    Completed =>
        \A s \in 1..fT-1 : \A fld \in Fields :
            LET p == forward_o(Perturb(args, fld, LAMBDA x : x[2] = s), args.scale[1])
            IN  \A x \in DOMAIN o_new : x[2] < s => p[x] = o_new[x]

\* a forward over two query chunks returned; changing the value at the first
\* time of the second chunk leaves the first chunk's outputs alone and
\* changes a later output
C3_Witness ==
    /\ Completed
    /\ fT > BT + 1
    /\ LET p == forward_o(Perturb(args, "v", LAMBDA x : x[2] = BT), args.scale[1])
       IN  /\ \A x \in DOMAIN o_new : x[2] < BT => p[x] = o_new[x]
           /\ \E x \in DOMAIN o_new : x[2] > BT /\ p[x] # o_new[x]

\* C4: with scale omitted the call completes and returns what the call with
\* the explicit scale 1/sqrt(K) returns.
C4_DefaultScale ==
    (args.scale = None /\ ~args.head_first /\ ShapesAgree /\ WidthOk) =>
        /\ pc # "raised"
        /\ pc = "returned" => o_new = forward_o(args, rsqrt(fK))

\* C5: when output_attentions is requested, every entry of the returned
\* attention matrix with key time > query time is zero.
C5_AttnTriangular ==
    (Completed /\ args.output_attentions) =>
        \A x \in DOMAIN attn : x[3] > x[2] => attn[x] = 0

\* the returned attention matrix has a nonzero entry in a diagonal block, in
\* a block of the overlap phase and in a block of the disjoint phase
C5_Witness ==
    /\ Completed /\ args.output_attentions
    /\ \E x \in DOMAIN attn : x[2] \div BS = x[3] \div BS /\ attn[x] # 0
    /\ \E x \in DOMAIN attn :
          x[2] \div BT = x[3] \div BT /\ x[2] \div BS # x[3] \div BS /\ attn[x] # 0
    /\ \E x \in DOMAIN attn : x[2] \div BT # x[3] \div BT /\ attn[x] # 0

\* C6: in the returned attention matrix every diagonal block holds the local
\* scores the intra-chunk transform stored for its chunk, and the
\* materializer was the last to write it.
C6_DiagonalBlocks ==
    (Completed /\ args.output_attentions) =>
        \A x \in DOMAIN attn :
            x[2] \div BS = x[3] \div BS =>
                /\ attn[x] = A_local[<<x[1], x[2], x[3] % BS>>]
                /\ lastw[x] = "save"

\* a returned attention matrix with a partial last chunk beyond the first
\* query chunk, whose diagonal block is not zero
C6_Witness ==
    /\ Completed /\ args.output_attentions
    /\ fT > BT /\ fT % BS # 0
    /\ \E x \in DOMAIN attn : x[2] = fT - 1 /\ x[3] = fT - 1 /\ attn[x] # 0
    /\ \E x \in DOMAIN attn : x[2] \div BS = x[3] \div BS /\ x[2] # x[3] /\ attn[x] # 0

\* C7: a call with head_first set ends in the deprecation error before
\* anything else happens, whatever the other arguments are.
C7_HeadFirstRaises ==
    (args.head_first /\ pc # "call") =>
        /\ pc = "raised" /\ result = "DeprecationWarning"
        /\ log = {} /\ ~warned
        /\ A = Empty /\ o_new = Empty /\ attn = Empty

\* the deprecation error on a call whose key is too wide and wider than
\* the query
C7_Witness ==
    /\ pc = "raised" /\ result = "DeprecationWarning"
    /\ args.head_first /\ args.ks[4] > MaxK /\ args.qs # args.ks

\* C8: a key wider than 128 fails the forward with the validation error
\* before the solver or a kernel runs, whatever the query's width is.
C8_WideKeyRejected ==
    (args.ks[4] > MaxK /\ ~args.head_first /\ pc \notin {"call", "forward"}) =>
        /\ pc = "raised" /\ result = "AssertionError"
        /\ log = {}
        /\ A = Empty /\ o_new = Empty

\* C9: every backward ends in NotImplementedError, runs nothing and writes
\* nothing.
C9_BackwardRaises ==
    [][(pc # "backward" /\ pc' = "backward") =>
          /\ result' = "NotImplementedError"
          /\ log' = log
          /\ UNCHANGED <<A, q_new, k_new, o, A_local, o_new, attn>>]_vars

C9_Witness == pc = "backward" /\ result = "NotImplementedError" /\ ShapesAgree

\* C10: in the documented layout [B, T, H, .] (axis 1 time, axis 2 head) the
\* output at a head does not depend on the inputs of another head, and the
\* output has the shape of v.
C10_HeadIndependent ==
    Completed =>
        /\ DOMAIN o_new = DOMAIN args.v
        /\ \A h \in 0..args.ks[3]-1 : \A fld \in Fields :
              LET p == forward_o(Perturb(args, fld, LAMBDA x : x[2] = h), args.scale[1])
              IN  \A x \in DOMAIN o_new : x[2] # h => p[x] = o_new[x]

\* the tensors a launch stores to
StoredTo(bind, stores) == {bind[p] : p \in stores}

\* C11: single writer, no aliasing.  No step of a forward changes a tensor of
\* the caller, and no kernel changes the correction matrix; every tensor a
\* kernel stores to was created by the forward, the store parameters of one
\* launch are bound to different tensors, and the scanner's original key is
\* not the tensor of its corrected key.
C11_SingleWriter ==
    [][ /\ args' = args
        /\ (pc \in {"intra", "scan", "save"} => A' = A)
        /\ StoredTo(IntraBind, IntraStores) \cup StoredTo(ScanBind, ScanStores)
              \cup StoredTo(SaveBind, SaveStores) \subseteq Created
        /\ Cardinality(StoredTo(IntraBind, IntraStores)) = Cardinality(IntraStores)
        /\ Cardinality(StoredTo(ScanBind, ScanStores)) = Cardinality(ScanStores)
        /\ ScanBind.k2 # ScanBind.k /\ ScanBind.k2 = IntraBind.k ]_vars

\* a forward with attentions returned after several units of every stage
\* stored all six created tensors
C11_Witness ==
    /\ Completed /\ args.output_attentions
    /\ fT > BT /\ fB * fH = 1
    /\ DOMAIN q_new = DOMAIN args.q /\ DOMAIN k_new = DOMAIN args.k
    /\ DOMAIN o = DOMAIN args.v /\ DOMAIN o_new = DOMAIN args.v
    /\ \E x \in DOMAIN A_local : A_local[x] # 0
    /\ \E x \in DOMAIN lastw : lastw[x] = "scan"

\* C12: stage barrier.  While scanner units run, every unit of the
\* intra-chunk grid has stored its corrected queries, corrected keys and
\* local output: no element a scanner unit loads is still unwritten.
C12_StageBarrier ==
    pc = "scan" =>
        /\ DOMAIN q_new = DOMAIN args.q
        /\ DOMAIN k_new = DOMAIN args.k
        /\ DOMAIN o = DOMAIN args.v
        /\ \A u \in ScanGrid : \A r \in 0..BT-1 :
              u[1] * BT + r < fT =>
                 /\ \A d \in 0..fK-1 : <<u[2], u[1] * BT + r, d>> \in DOMAIN q_new
                 /\ \A e \in 0..fV-1 : <<u[2], u[1] * BT + r, e>> \in DOMAIN o

\* a scanner unit has run after an intra-chunk grid of at least three units
C12_Witness ==
    /\ pc = "scan" /\ done # {}
    /\ Cardinality(IntraGrid) >= 3
    /\ \E x \in DOMAIN o_new : o_new[x] # 0

\* C13: a call whose tensors disagree in shape, with K <= 128, fails the
\* forward with the validation error before the solver runs, before a tensor
\* is created and before a kernel is launched.
C13_ShapeMismatchRejected ==
    (~ShapesAgree /\ args.ks[4] <= MaxK /\ ~args.head_first
       /\ pc \notin {"call", "forward"}) =>
        /\ pc = "raised" /\ result = "AssertionError"
        /\ log = {}
        /\ A = Empty /\ o_new = Empty

\* the key block offsets of query chunk i_t in the order the unit visits them
Visits(i_t) == OverlapOffsets(i_t) \o DisjointOffsets(i_t)

\* the scan iterations of query chunk i_t in which the row of query time tq
\* takes in the key at time tk
ScanHits(i_t, tq, tk) ==
    {n \in 1..Len(Visits(i_t)) :
        /\ Visits(i_t)[n] <= tk /\ tk < Visits(i_t)[n] + BS
        /\ \/ n > Len(OverlapOffsets(i_t))
           \/ m_s(tq - i_t * BT, Visits(i_t)[n], i_t)}

\* whether the intra-chunk stage takes in the pair
IntraHits(tq, tk) ==
    IF tq \div BS = tk \div BS /\ m_t_qk(tq % BS, tk % BS) THEN 1 ELSE 0

\* C14: scan order and coverage.  Every scanner unit visits its key blocks
\* in decreasing offset, step BS: the masked overlap offsets
\* (i+1)*BT - 2*BS .. i*BT, then the unmasked disjoint offsets i*BT - BS .. 0;
\* no offset is negative, every block offset up to (i+1)*BT - 2*BS is visited
\* once, and every pair (tq, tk) is taken in once if tk <= tq (by the
\* intra-chunk stage in the same key block, by one scan iteration in an
\* earlier one) and never if tk > tq.
C14_ScanCoverage ==
    pc = "scan" =>
        \A u \in ScanGrid :
            LET i   == u[1]
                vis == Visits(i)
                top == (i + 1) * BT - 2 * BS
            IN  /\ \A n \in 1..Len(vis)-1 : vis[n + 1] = vis[n] - BS
                /\ \A n \in 1..Len(vis) : vis[n] >= 0
                /\ {vis[n] : n \in 1..Len(vis)} = {b * BS : b \in 0..(top \div BS)}
                /\ Len(vis) = (top \div BS) + 1
                /\ \A n \in 1..Len(vis) : (n <= Len(OverlapOffsets(i))) = (vis[n] >= i * BT)
                /\ vis[1] = top /\ vis[Len(vis)] = 0
                /\ \A r \in 0..BT-1 : \A tk \in 0..fT-1 :
                      LET tq == i * BT + r
                      IN  tq < fT =>
                            /\ IntraHits(tq, tk) + Cardinality(ScanHits(i, tq, tk))
                                  = (IF tk <= tq THEN 1 ELSE 0)
                            /\ (tk <= tq /\ tk \div BS < tq \div BS) =>
                                  Cardinality(ScanHits(i, tq, tk)) = 1

\* the unit of the second query chunk has run both phases and stored a
\* nonzero score in each
C14_Witness ==
    /\ pc = "scan" /\ <<1, 0>> \in done /\ args.output_attentions
    /\ Len(OverlapOffsets(1)) >= 2 /\ Len(DisjointOffsets(1)) >= 2
    /\ \E x \in DOMAIN attn : x[2] >= BT /\ x[3] >= BT /\ lastw[x] = "scan"
    /\ \E x \in DOMAIN attn : x[2] >= BT /\ x[3] < BT /\ lastw[x] = "scan" /\ attn[x] # 0

\* the arguments with the time axis filled up with zeros to whole query chunks
PadArgs(a) ==
    LET T2 == cdiv(a.ks[3], BT) * BT
        BH == a.ks[1] * a.ks[2]
        ext(X, W) == [x \in (0..BH-1) \X (0..T2-1) \X (0..W-1) |->
                        IF x \in DOMAIN X THEN X[x] ELSE 0]
    IN  [a EXCEPT !.q = ext(a.q, a.qs[4]), !.k = ext(a.k, a.ks[4]),
                  !.v = ext(a.v, a.vs[4]),
                  !.beta = [x \in (0..BH-1) \X (0..T2-1) |->
                              IF x \in DOMAIN a.beta THEN a.beta[x] ELSE 0],
                  !.qs = <<a.qs[1], a.qs[2], T2, a.qs[4]>>,
                  !.ks = <<a.ks[1], a.ks[2], T2, a.ks[4]>>,
                  !.vs = <<a.vs[1], a.vs[2], T2, a.vs[4]>>,
                  !.bs = <<a.bs[1], a.bs[2], T2>>]

\* the time positions of the tiles that lie at or beyond T
Beyond == fT..(cdiv(fT, BT) * BT - 1)

\* C15: boundary masking, for every T.  Every element the kernels have
\* written lies inside its tensor; a tile position at or beyond T, or a
\* feature at or beyond the width, is loaded as zero; and the output is the
\* output of the same call with the time axis filled up with zeros to whole
\* chunks, so positions beyond T contribute nothing.
C15_BoundaryMasking ==
    (ShapesAgree /\ pc \in {"intra", "scan", "save", "returned"}) =>
        /\ DOMAIN q_new \subseteq DOMAIN args.q
        /\ DOMAIN k_new \subseteq DOMAIN args.k
        /\ DOMAIN o \subseteq DOMAIN args.v
        /\ DOMAIN o_new \subseteq DOMAIN args.v
        /\ DOMAIN A_local \subseteq DOMAIN A
        /\ DOMAIN attn \subseteq (0..fB*fH-1) \X (0..fT-1) \X (0..fT-1)
        /\ \A i_bh \in 0..fB*fH-1 :
              /\ \A t \in Beyond :
                    /\ \A d \in 0..BK-1 :
                          /\ Load(args.q, fT, fK, i_bh, t, d) = 0
                          /\ Load(args.k, fT, fK, i_bh, t, d) = 0
                    /\ \A e \in 0..BV-1 : Load(args.v, fT, fV, i_bh, t, e) = 0
                    /\ \A c \in 0..BS-1 : Load(A, fT, BS, i_bh, t, c) = 0
                    /\ Load1(args.beta, fT, i_bh, t) = 0
              /\ \A t \in 0..fT-1 :
                    /\ \A d \in fK..BK-1 : Load(args.k, fT, fK, i_bh, t, d) = 0
                    /\ \A e \in fV..BV-1 : Load(args.v, fT, fV, i_bh, t, e) = 0
        /\ pc = "returned" =>
              LET p == forward_o(PadArgs(args), args.scale[1])
              IN  \A x \in DOMAIN o_new : p[x] = o_new[x]

\* a forward returned whose last query chunk is partial, with a whole key
\* block of its overlap phase beyond T, a key block cut by T and a value
\* tile wider than V
C15_Witness ==
    /\ Completed /\ args.output_attentions
    /\ fT > BT /\ fT % BS # 0 /\ BV > fV
    /\ \E n \in 1..Len(OverlapOffsets(1)) : OverlapOffsets(1)[n] >= fT
    /\ \E x \in DOMAIN o_new : x[2] = fT - 1 /\ o_new[x] # 0

\* whether the functions of a family have pairwise disjoint domains
Disjoint(fam) ==
    \A u1 \in DOMAIN fam : \A u2 \in DOMAIN fam :
        u1 # u2 => DOMAIN fam[u1] \cap DOMAIN fam[u2] = {}

\* what each unit of the running grid stores, per store parameter
IntraWrites ==
    [u \in IntraGrid |->
        chunk_transform_qk_fwd_kernel(Buf(IntraBind.q), Buf(IntraBind.k),
            Buf(IntraBind.v), Buf(IntraBind.beta), Buf(IntraBind.A), args.scale[1],
            fT, fK, fV, BK, BV, BS, args.output_attentions, u[1], u[2])]

ScanWrites ==
    [u \in ScanGrid |-> parallel_delta_rule_fwd_kernel(ScanArgs, u[1], u[2])]

SaveWrites ==
    [u \in SaveGrid |-> save_intra_chunk_attn(Buf(SaveBind.A_local), fT, BS, u[1], u[2])]

\* C16: unit independence within a stage.  When a grid is launched, no two
\* of its units store to a common element; the tensors a stage loads from
\* are not the tensors it stores to; and whatever the order of the units
\* was, the tensors a finished stage leaves are those of the units run in
\* grid order.
C16_UnitIndependence ==
    /\ StoredTo(IntraBind, IntraLoads) \cap StoredTo(IntraBind, IntraStores) = {}
    /\ StoredTo(ScanBind, ScanLoads) \cap StoredTo(ScanBind, ScanStores) = {}
    /\ StoredTo(SaveBind, SaveLoads) \cap StoredTo(SaveBind, SaveStores) = {}
    /\ (pc = "intra" /\ done = {}) =>
          /\ Disjoint([u \in IntraGrid |-> IntraWrites[u].q_new])
          /\ Disjoint([u \in IntraGrid |-> IntraWrites[u].k_new])
          /\ Disjoint([u \in IntraGrid |-> IntraWrites[u].o])
          /\ Disjoint([u \in IntraGrid |-> IntraWrites[u].A_local])
    /\ (pc = "scan" /\ done = {}) =>
          /\ Disjoint([u \in ScanGrid |-> ScanWrites[u].o_new])
          /\ Disjoint([u \in ScanGrid |-> ScanWrites[u].attn])
          /\ LET w == IntraUnits(args, A, args.scale[1], Cardinality(IntraGrid))
             IN  q_new = w.q_new /\ k_new = w.k_new /\ o = w.o
    /\ (pc = "save" /\ done = {}) => Disjoint(SaveWrites)
    /\ Completed => o_new = forward_o(args, args.scale[1])

\* a forward with attentions returned whose three grids had several units
\* each, over two heads
C16_Witness ==
    /\ Completed /\ args.output_attentions
    /\ fB * fH = 2 /\ Cardinality(IntraGrid) >= 4
    /\ Cardinality(ScanGrid) >= 2 /\ Cardinality(SaveGrid) >= 4
    /\ \E x \in DOMAIN o_new : x[1] = 1 /\ o_new[x] # 0

----------------------------------------------------------------------------
(* RotaryEmbedding (fla/modules/rotary.py).  The module is constructed with *)
(* the defaults scale_base = None and pos_idx_in_fp32 = True, and forward   *)
(* is called with cu_seqlens = None.  A table is recorded by its number of  *)
(* rows, device, dtype and whether it was created in inference mode; a      *)
(* rotated tensor by the table row each of its positions was rotated with.  *)
(* A position the kernel does not store is absent: y comes from             *)
(* torch.empty_like.                                                        *)

MaxRotT == 2
MaxOffset == 1
MaxBatch == 2

Devices == {"cuda:0", "cuda:1"}
Dtypes == {"bf16", "fp32"}

\* The arguments of forward: q and k of shape [B, T, H, D] on one device in
\* one dtype, seqlen_offset an int (offs has one entry) or a tensor of shape
\* (B,), max_seqlen None or an int, and the inference mode of the caller.
RotaryCalls ==
    { [B |-> b, T |-> t, device |-> dv, dtype |-> dt, is_tensor |-> it,
       offs |-> of, max_seqlen |-> ms, inference |-> inf] :
        b \in 1..MaxBatch, t \in 1..MaxRotT, dv \in Devices, dt \in Dtypes,
        it \in BOOLEAN, of \in UNION {[1..n -> 0..MaxOffset] : n \in 1..MaxBatch},
        ms \in {None} \cup {<<m>> : m \in {1, MaxRotT + MaxOffset}},
        inf \in BOOLEAN }

RotaryArgs == { c \in RotaryCalls : Len(c.offs) = (IF c.is_tensor THEN c.B ELSE 1) }

\* seq_offsets of sequence i_n as the kernel reads it (1-based i_n)
seq_offsets(c, i_n) == IF c.is_tensor THEN c.offs[i_n] ELSE c.offs[1]

\* the condition of _update_cos_sin_cache
CacheStale(seqlen, device, dtype) ==
    IF seqlen > seq_len_cached THEN TRUE
    ELSE IF cos_cached = None THEN TRUE
    ELSE IF cos_cached.device # device THEN TRUE
    ELSE IF cos_cached.dtype # dtype THEN TRUE
    ELSE training /\ cos_cached.inference

\* the seqlen forward passes to _update_cos_sin_cache; None when it does not
\* call it
UpdateSeqlen(c) ==
    IF c.max_seqlen # None THEN c.max_seqlen
    ELSE IF ~c.is_tensor THEN <<c.T + c.offs[1]>>
    ELSE None

\* rotary_embedding_kernel over its whole grid: position o_t of sequence i_n
\* is rotated with table row o_cs and stored when the mask m_t holds
rotary_embedding_kernel(c, TR) ==
    LET m_t(i_n, o_t) == LET o_cs == o_t + seq_offsets(c, i_n)
                         IN  o_t >= 0 /\ o_t < c.T /\ o_cs >= 0 /\ o_cs < TR
        stored == { x \in (1..c.B) \X (0..c.T-1) : m_t(x[1], x[2]) }
    IN  [x \in stored |-> x[2] + seq_offsets(c, x[1])]

\* rotary_embedding_fwdbwd up to the launch: the exception it raises, or "ok"
rotary_embedding_fwdbwd(c, cos, sin) ==
    IF cos = None THEN "AttributeError"
    ELSE IF ~(cos.rows >= c.T) THEN "AssertionError"
    ELSE IF cos.dtype # sin.dtype THEN "AssertionError"
    ELSE IF c.dtype # cos.dtype THEN "AssertionError"
    ELSE IF ~c.is_tensor /\ ~(c.offs[1] + c.T <= cos.rows) THEN "AssertionError"
    ELSE "ok"

RotaryInit ==
    /\ pc = "none" /\ args = None /\ warned = FALSE /\ log = <<>>
    /\ A = Empty /\ q_new = Empty /\ k_new = Empty /\ o = Empty
    /\ A_local = Empty /\ o_new = Empty /\ attn = Empty /\ lastw = Empty
    /\ done = {} /\ result = "none"
    /\ rpc = "idle" /\ rcall = None
    /\ training \in BOOLEAN
    /\ inv_freq_device \in Devices
    /\ seq_len_cached = 0
    /\ cos_cached = None
    /\ sin_cached = None
    /\ y_q = Empty /\ y_k = Empty
    /\ rresult = "none"

\* nn.Module.to(device): the registered buffer moves, the cached tables are
\* plain attributes and stay where they are
To ==
    /\ rpc = "idle"
    /\ \E d \in Devices \ {inv_freq_device} : inv_freq_device' = d
    /\ UNCHANGED <<rpc, rcall, training, seq_len_cached, cos_cached, sin_cached,
                   y_q, y_k, rresult>>
    /\ UNCHANGED delta_vars

\* forward, when it does not call _update_cos_sin_cache or the tables are kept
ForwardKeep ==
    /\ rpc = "idle"
    /\ \E c \in RotaryArgs :
        /\ \/ UpdateSeqlen(c) = None
           \/ /\ UpdateSeqlen(c) # None
              /\ ~CacheStale(UpdateSeqlen(c)[1], c.device, c.dtype)
        /\ rcall' = c
    /\ rpc' = "cached"
    /\ rresult' = "none" /\ y_q' = Empty /\ y_k' = Empty
    /\ UNCHANGED <<training, inv_freq_device, seq_len_cached, cos_cached, sin_cached>>
    /\ UNCHANGED delta_vars

\* forward, when _update_cos_sin_cache rebuilds the tables
ForwardRebuild ==
    /\ rpc = "idle"
    /\ \E c \in RotaryArgs :
        /\ UpdateSeqlen(c) # None
        /\ CacheStale(UpdateSeqlen(c)[1], c.device, c.dtype)
        /\ c.device = inv_freq_device
        /\ rcall' = c
        /\ seq_len_cached' = UpdateSeqlen(c)[1]
        /\ cos_cached' = [rows |-> UpdateSeqlen(c)[1], device |-> c.device,
                          dtype |-> c.dtype, inference |-> c.inference]
        /\ sin_cached' = [rows |-> UpdateSeqlen(c)[1], device |-> c.device,
                          dtype |-> c.dtype, inference |-> c.inference]
    /\ rpc' = "cached"
    /\ rresult' = "none" /\ y_q' = Empty /\ y_k' = Empty
    /\ UNCHANGED <<training, inv_freq_device>>
    /\ UNCHANGED delta_vars

\* forward, when the rebuild fails: torch.outer(t, inv_freq) with t on the
\* device of q and inv_freq elsewhere, after _seq_len_cached was assigned
ForwardRebuildRaises ==
    /\ rpc = "idle"
    /\ \E c \in RotaryArgs :
        /\ UpdateSeqlen(c) # None
        /\ CacheStale(UpdateSeqlen(c)[1], c.device, c.dtype)
        /\ c.device # inv_freq_device
        /\ rcall' = c
        /\ seq_len_cached' = UpdateSeqlen(c)[1]
    /\ rpc' = "raised"
    /\ rresult' = "RuntimeError" /\ y_q' = Empty /\ y_k' = Empty
    /\ UNCHANGED <<training, inv_freq_device, cos_cached, sin_cached>>
    /\ UNCHANGED delta_vars

\* rotary_embedding(q, ...) raises before the launch
RotateRaises ==
    /\ rpc = "cached"
    /\ rotary_embedding_fwdbwd(rcall, cos_cached, sin_cached) # "ok"
    /\ rpc' = "raised"
    /\ rresult' = rotary_embedding_fwdbwd(rcall, cos_cached, sin_cached)
    /\ UNCHANGED <<rcall, training, inv_freq_device, seq_len_cached, cos_cached,
                   sin_cached, y_q, y_k>>
    /\ UNCHANGED delta_vars

\* rotary_embedding(q, ...) and rotary_embedding(k, ...) launch the kernel
Rotate ==
    /\ rpc = "cached"
    /\ rotary_embedding_fwdbwd(rcall, cos_cached, sin_cached) = "ok"
    /\ cos_cached.device = rcall.device
    /\ y_q' = rotary_embedding_kernel(rcall, cos_cached.rows)
    /\ y_k' = rotary_embedding_kernel(rcall, cos_cached.rows)
    /\ rpc' = "rotated"
    /\ rresult' = "ok"
    /\ UNCHANGED <<rcall, training, inv_freq_device, seq_len_cached, cos_cached,
                   sin_cached>>
    /\ UNCHANGED delta_vars

\* the same launch with the tables on another device than q: the kernel
\* dereferences pointers of the other device, which either faults or, with
\* peer access, reads the tables
RotateForeignTables ==
    /\ rpc = "cached"
    /\ rotary_embedding_fwdbwd(rcall, cos_cached, sin_cached) = "ok"
    /\ cos_cached.device # rcall.device
    /\ \/ /\ y_q' = rotary_embedding_kernel(rcall, cos_cached.rows)
          /\ y_k' = rotary_embedding_kernel(rcall, cos_cached.rows)
          /\ rpc' = "rotated"
          /\ rresult' = "ok"
       \/ /\ UNCHANGED <<y_q, y_k>>
          /\ rpc' = "raised"
          /\ rresult' = "DeviceError"
    /\ UNCHANGED <<rcall, training, inv_freq_device, seq_len_cached, cos_cached,
                   sin_cached>>
    /\ UNCHANGED delta_vars

\* forward returns or its exception reaches the caller
RotaryReturn ==
    /\ rpc \in {"rotated", "raised"}
    /\ rpc' = "idle"
    /\ rcall' = None
    /\ y_q' = Empty /\ y_k' = Empty
    /\ rresult' = "none"
    /\ UNCHANGED <<training, inv_freq_device, seq_len_cached, cos_cached, sin_cached>>
    /\ UNCHANGED delta_vars

RotaryNext ==
    \/ To
    \/ ForwardKeep
    \/ ForwardRebuild
    \/ ForwardRebuildRaises
    \/ RotateRaises
    \/ Rotate
    \/ RotateForeignTables
    \/ RotaryReturn

RotarySpec == RotaryInit /\ [][RotaryNext]_vars

\* C17: whenever a forward call has applied the rotation, the cached cos and
\* sin tables exist, are on the device and in the dtype of the query, have
\* exactly _seq_len_cached rows and at least T + seqlen_offset rows for every
\* sequence of the call, and every position of q and k was rotated with the
\* table row of its own position (none was left out by the kernel's mask).
C17_TablesCoverCall ==
    rpc = "rotated" =>
        /\ cos_cached # None /\ sin_cached # None
        /\ cos_cached.device = rcall.device /\ sin_cached.device = rcall.device
        /\ cos_cached.dtype = rcall.dtype /\ sin_cached.dtype = rcall.dtype
        /\ cos_cached.rows = seq_len_cached /\ sin_cached.rows = seq_len_cached
        /\ \A i_n \in 1..rcall.B : rcall.T + seq_offsets(rcall, i_n) <= cos_cached.rows
        /\ \A i_n \in 1..rcall.B : \A o_t \in 0..rcall.T-1 :
               /\ <<i_n, o_t>> \in DOMAIN y_q
               /\ <<i_n, o_t>> \in DOMAIN y_k
               /\ y_q[<<i_n, o_t>>] = o_t + seq_offsets(rcall, i_n)
               /\ y_k[<<i_n, o_t>>] = o_t + seq_offsets(rcall, i_n)

====
